---- MODULE Spec2Model ----
(***************************************************************************)
(* State-machine model of ModelInstallService                              *)
(* (invokeai/app/services/model_install/model_install_default.py).         *)
(*                                                                         *)
(* Threads: caller threads (import_model, cancel_job, stop, start), the    *)
(* single install worker (_install_next_item) and the download queue's     *)
(* threads, which deliver the five callbacks.  The callbacks run their     *)
(* whole body under self._lock, so each is one step; the worker holds no   *)
(* lock and cancel_job marks the job before taking the lock, so those are  *)
(* split at the points where other threads can run in between.             *)
(***************************************************************************)
EXTENDS Integers, Sequences, FiniteSets, TLC

\* ------------------------------------------------------------------ bounds
MaxJobs == 2        \* install jobs created in one run
MaxParts == 2       \* remote files of a repository source
MaxCancels == 2     \* cancel_job calls made by caller threads in one run
MaxSize == 2        \* bytes of one remote file
MaxCallers == 2     \* caller threads inside import_model at the same time
MaxStarts == 3      \* start() calls made in one run
MaxEntries == 2     \* model stanzas of one legacy models.yaml
MaxKeys == 3        \* records added to the records store in one run
MaxData == 2        \* different contents a model file can have
MaxTaken == 3       \* numbered names <stem>_NN that can be taken in a directory

\* --------------------------------------------------------------- constants
NoJob == -1         \* `None` of _download_cache.pop(url, None)

WAITING == "WAITING"
DOWNLOADING == "DOWNLOADING"
DOWNLOADS_DONE == "DOWNLOADS_DONE"
RUNNING == "RUNNING"
COMPLETED == "COMPLETED"
ERROR == "ERROR"
CANCELLED == "CANCELLED"

InstallStatus == {WAITING, DOWNLOADING, DOWNLOADS_DONE, RUNNING, COMPLETED, ERROR, CANCELLED}
TerminalStatus == {COMPLETED, ERROR, CANCELLED}

\* DownloadJob.status of a part, as the download queue reports it
PartStatus == {"waiting", "running", "completed", "error", "cancelled"}
PartTerminal == {"completed", "error", "cancelled"}
PartActive == PartStatus \ PartTerminal

\* Sources a caller submits: LocalModelSource, HFModelSource without an
\* explicit access token, URLModelSource.
SubmitSources ==
    { [kind |-> "local", token |-> "none"],
      [kind |-> "repo", token |-> "none"],
      [kind |-> "url", token |-> "none"] }

\* What HfFolder.get_token() can return: no cached token, or a token.
CachedTokens == {"none", "tok"}

\* Number of remote files: a repository yields MaxParts files, a plain URL
\* is synthesized as one RemoteModelFile, a local source has none.
NumFiles(kind) ==
    IF kind = "repo" THEN MaxParts ELSE IF kind = "url" THEN 1 ELSE 0

\* The URL of a part: DownloadJob.source, the key of _download_cache.  The
\* same source always expands to the same URLs.
Url(kind, p) == IF kind = "url" THEN 0 ELSE p
Urls == 0..MaxParts

VARIABLES
    hfToken,        \* what HfFolder.get_token() returns on this host
    running,        \* self._running
    stopEvent,      \* self._stop_event.is_set()
    lock,           \* self._lock: "free", or the thread that holds it forever
    nextJobId,      \* self._next_job_id
    jobs,           \* every ModelInstallJob object created, by id
    installJobs,    \* self._install_jobs, ids in list order
    installQueue,   \* self._install_queue, ids in FIFO order
    downloadCache,  \* self._download_cache: url -> job id, NoJob when absent
    worker,         \* the install thread: [pc, job]
    cancelling,     \* job of a cancel_job call between job.cancel() and the lock
    stopPc,         \* the thread running stop(): "idle", "join", "blocked"
    ext             \* what the specifications of single features add, by field

\* Byte counts of one remote job and of its download parts.
meter == ext.meter
\* The thread in wait_for_installs: [pc, seen].
waiter == ext.waiter
\* The caller threads inside import_model: thread -> [pc, source, id].
importers == ext.importers
\* The thread in prune_jobs: [pc, unfinished].
pruner == ext.pruner
\* What start() works on: the disk, the app config, the records store and
\* what the start() calls did.
boot == ext.boot
\* The models root, the files outside it and the records store that
\* install_path, register_path, delete and unregister work on.
models == ext.models
\* The directory _move_model moves into and its last call.
mover == ext.mover
\* Who holds self._lock, where each thread is in its handler, and the last
\* write to shared state.
guard == ext.guard

\* The state of the service proper.
core == <<hfToken, running, stopEvent, lock, nextJobId, jobs, installJobs, installQueue,
          downloadCache, worker, cancelling, stopPc>>

vars == <<hfToken, running, stopEvent, lock, nextJobId, jobs, installJobs, installQueue,
          downloadCache, worker, cancelling, stopPc, ext>>

JobIds == DOMAIN jobs

\* ------------------------------------------------------- job predicates
in_terminal_state(job) == job.status \in TerminalStatus
part_terminal(st) == st \in PartTerminal
AllPartsTerminal(job) == \A p \in DOMAIN job.parts : part_terminal(job.parts[p])
AllPartsComplete(job) == \A p \in DOMAIN job.parts : job.parts[p] = "completed"

\* The scratch directory made by mkdtemp is on disk until rmtree removes it.
TmpdirExists(job) == job.tmpdir /\ job.rmtrees = 0

\* ModelInstallJob.cancel(): the job is marked cancelled.
JobCancel(job) == [job EXCEPT !.status = CANCELLED]

\* ModelInstallJob.set_error(e): records error and error_type, status ERROR.
JobSetError(job, etype) == [job EXCEPT !.status = ERROR, !.error = etype]

\* An event put on the event bus for the job (the _signal_job_* methods).
Emit(job, ev) == [job EXCEPT !.evts = Append(@, ev)]

_signal_job_running(job) == Emit([job EXCEPT !.status = RUNNING], "running")
_signal_job_downloads_done(job) ==
    Emit([job EXCEPT !.status = DOWNLOADS_DONE], "downloads_done")
_signal_job_completed(job) == Emit([job EXCEPT !.status = COMPLETED], "completed")
_signal_job_errored(job) == Emit(job, "error")
_signal_job_cancelled(job) == Emit(job, "cancelled")

\* `for s in install_job.download_parts: self._download_queue.cancel_job(s)`:
\* DownloadQueue.cancel_job is a non-blocking request; the queue answers later
\* with the on_cancelled callback of each part that has not ended.  The
\* request always goes to all parts of a job, so it is kept once per job.
CancelAllParts(job) ==
    [job EXCEPT !.creq = \E p \in DOMAIN job.parts : job.parts[p] \in PartActive]

\* Result of a piece of code that changes jobs and the install queue and may
\* never return: blocked means the thread waits for self._lock while holding
\* it (threading.Lock is not reentrant).
St(js, q, b) == [jobs |-> js, queue |-> q, blocked |-> b]

RECURSIVE PutInQueue(_, _, _, _, _)
RECURSIVE CancelDownloadParts(_, _, _, _)

\* _put_in_queue(job) on jobs js and queue q.  held: the calling thread holds
\* self._lock; stopped: self._stop_event.is_set().  When the stop event is set
\* it calls cancel_job(job): job.cancel(), then
\* `with self._lock: self._cancel_download_parts(job)`.
PutInQueue(js, q, j, held, stopped) ==
    IF stopped
    THEN LET js1 == [js EXCEPT ![j] = JobCancel(@)]
         IN  IF held THEN St(js1, q, TRUE)
                     ELSE CancelDownloadParts(js1, q, j, stopped)
    ELSE St([js EXCEPT ![j].puts = @ + 1], Append(q, j), FALSE)

\* _cancel_download_parts(install_job), always called with the lock held.
CancelDownloadParts(js, q, j, stopped) ==
    LET js1 == [js EXCEPT ![j] = CancelAllParts(@)]
    IN  IF AllPartsTerminal(js1[j])
        THEN PutInQueue(js1, q, j, TRUE, stopped)
        ELSE St(js1, q, FALSE)

_put_in_queue(js, q, j, held) == PutInQueue(js, q, j, held, stopEvent)
_cancel_download_parts(js, q, j) == CancelDownloadParts(js, q, j, stopEvent)

\* Byte counts before any remote job exists.  meta: RemoteModelFile.size of
\* each file; ptotal, pbytes: DownloadJob.total_bytes and .bytes of each
\* part; total, bytes: ModelInstallJob.total_bytes and .bytes.
NoMeter ==
    [meta |-> <<>>, started |-> <<>>, ptotal |-> <<>>, pbytes |-> <<>>,
     total |-> 0, bytes |-> 0]

\* No wait_for_installs call yet.  pc: "idle", "loop" (in the while loop over
\* the download cache), "join" (in _install_queue.join()), "returned"; seen:
\* the jobs of the job table when the call was made.
NoWaiter == [pc |-> "idle", seen |-> {}]

\* A caller thread outside import_model.  pc: "idle", "next_id" (after the
\* similar_jobs check, before _next_id), "id_write" (inside _next_id, after
\* reading _next_job_id), "append" (after _next_id, building the job).
Callers == 1..MaxCallers
NoImport == [pc |-> "idle", source |-> [kind |-> "local", token |-> "none"], id |-> NoJob]

\* No prune_jobs call under way.  pc: "idle", "assign" (unfinished_jobs is
\* built, self._install_jobs not yet assigned).
NoPrune == [pc |-> "idle", unfinished |-> <<>>]

\* The two places _migrate_yaml looks at: the configured
\* legacy_models_yaml_path and root_path/configs/models.yaml.
Paths == {"custom", "default"}

\* What is at a path: nothing, a models.yaml of some version with n stanzas,
\* or (ver = "bak") the file after its rename to models.yaml.bak.
Absent == [ver |-> "none", n |-> 0]
FileStates ==
    {Absent} \cup [ver : {"3.0.0", "2.0.0"}, n : 0..MaxEntries]

\* No migration pass over a v3.0.0 file yet.  call: the start() call that
\* made the last such pass; file: its path; registered: the models it
\* registered; empty: db_models was empty when it ran.
NoPass == [call |-> 0, file |-> "none", registered |-> 0, empty |-> FALSE]

\* Before the service is set up.  calls: start() calls made; outcome: how the
\* last start() call ended ("none", "returned", "AlreadyStarted", "OSError",
\* "ValueError"); steps: the start-up steps the last start() call completed;
\* sigint: the SIGINT handler; extra: live worker threads besides the one
\* `worker` describes; leftover: a tmpinstall_ directory lies under the
\* models root; scan: scan_models_on_startup; configured: the legacy path of
\* the configuration file; cfg: app_config.legacy_models_yaml_path in memory;
\* files: what is at each path; store: the records of the records store;
\* v3passes: the migration passes made over the v3.0.0 file of each path.
NoBoot ==
    [provisioned |-> FALSE, calls |-> 0, outcome |-> "none", steps |-> {},
     sigint |-> "default", extra |-> 0, leftover |-> FALSE, scan |-> FALSE,
     configured |-> "unset", cfg |-> "unset",
     files |-> [f \in Paths |-> Absent], store |-> 0,
     v3passes |-> [f \in Paths |-> 0], pass |-> NoPass]

\* The name of the model handled, a file or a directory; it probes to one
\* base and type, so the name is the destination under the models root.
ModelNames == {"m"}
\* Nothing at a path.
NoEntry == [kind |-> "none", data |-> 0]
\* A single-file model or a directory model with some content.
Entries == [kind : {"file", "dir"}, data : 1..MaxData]

\* An empty models root and records store.  tree: what lies at
\* <models_root>/<base>/<type>/<name>; outside: what lies at /src/<name>
\* outside the models root; store: the records, key -> [path, inside];
\* calls: the calls made; last: the last call and how it ended.
NoModels ==
    [tree |-> [n \in ModelNames |-> NoEntry],
     outside |-> [n \in ModelNames |-> NoEntry],
     store |-> <<>>, calls |-> 0, last |-> [op |-> "none", key |-> 0, name |-> "", result |-> "none"]]

\* A path is [parent, stem, suffix]; the stem is a sequence of characters.
\* parent "dst" is the directory moved into, "src" a directory elsewhere.
Suffixes == {".safetensors", ""}
Digit(d) == <<"0", "1", "2", "3", "4", "5", "6", "7", "8", "9">>[d + 1]
\* The decimal digits of n.
RECURSIVE Decimal(_)
Decimal(n) == IF n < 10 THEN <<Digit(n)>> ELSE Decimal(n \div 10) \o <<Digit(n % 10)>>
\* f"{counter:02d}"
Format02(n) == IF n < 10 THEN <<"0">> \o Decimal(n) ELSE Decimal(n)
\* new_path.with_stem(new_path.stem + f"_{counter:02d}")
Jiggered(p, counter) == [p EXCEPT !.stem = @ \o <<"_">> \o Format02(counter)]

\* The paths that can lie in the directory: x<suffix>, the numbered names
\* x_01<suffix>.. and x_1<suffix>, whose number is not padded.
BasePath(s) == [parent |-> "dst", stem |-> <<"x">>, suffix |-> s]
DirPaths ==
    {BasePath(s) : s \in Suffixes}
       \cup {Jiggered(BasePath(s), n) : s \in Suffixes, n \in 1..MaxTaken}
       \cup {[BasePath(s) EXCEPT !.stem = <<"x", "_", "1">>] : s \in Suffixes}
\* A model lying elsewhere.
SrcPaths == {[BasePath(s) EXCEPT !.parent = "src"] : s \in Suffixes}

\* No _move_model call yet, into an empty directory.  dir: the paths that
\* exist in the directory; last: the last call, with the directory before.
NoMove == [old |-> BasePath(""), new |-> BasePath(""), result |-> BasePath(""),
           before |-> {}, called |-> FALSE]
NoMover == [dir |-> {}, last |-> NoMove]

\* The steps of a handler that touch self._lock or shared state, in program
\* order: `with self._lock:` is an acquire and a release around the writes
\* of its body.
Acquire == [op |-> "acquire", field |-> "lock"]
Release == [op |-> "release", field |-> "lock"]
Write(field) == [op |-> "write", field |-> field]

\* cancel_job: job.cancel(), then `with self._lock: self._cancel_download_parts(job)`
cancel_job_steps == <<Write("status"), Acquire, Release>>
\* _download_started_callback: everything under `with self._lock:`
download_started_steps == <<Acquire, Write("status"), Write("local_path"), Release>>
\* _download_progress_callback
download_progress_steps == <<Acquire, Write("bytes"), Release>>
\* import_model of a remote source: _next_id() under the lock, then
\* _import_remote_model fills the download cache and import_model appends
\* to the job table.
import_model_steps ==
    <<Acquire, Write("next_job_id"), Release, Write("download_cache"), Write("job_table")>>
\* prune_jobs
prune_jobs_steps == <<Write("job_table")>>
\* stop: _clear_pending_jobs (cancel_job on every job), then
\* _download_cache.clear() and _running = False.
stop_steps ==
    cancel_job_steps \o <<Write("download_cache"), Write("running")>>
\* start: _start_installer_thread sets _running inside `with self._lock:`
start_steps == <<Acquire, Write("running"), Release>>
\* _install_next_item on the job it took from the queue: _register_or_install
\* sets total_bytes and bytes, the _signal_job_* methods set the status.
worker_steps == <<Write("bytes"), Write("status")>>

Handlers ==
    [cancel_job |-> cancel_job_steps, on_start |-> download_started_steps,
     on_progress |-> download_progress_steps, import_model |-> import_model_steps,
     prune_jobs |-> prune_jobs_steps, stop |-> stop_steps, start |-> start_steps,
     worker |-> worker_steps]
Threads == DOMAIN Handlers

\* No thread inside a handler.  holder: the thread holding self._lock or
\* "none"; pc: the next step of each thread; last: the last write made, by
\* whom, and whether the writer held the lock.
NoGuard ==
    [holder |-> "none", pc |-> [t \in Threads |-> 1],
     last |-> [field |-> "none", by |-> "none", locked |-> FALSE]]

\* ------------------------------------------------------------------ Init
Init ==
    /\ hfToken \in CachedTokens
    /\ running = FALSE
    /\ stopEvent = FALSE
    /\ lock = "free"
    /\ nextJobId = 0
    /\ jobs = <<>>
    /\ installJobs = <<>>
    /\ installQueue = <<>>
    /\ downloadCache = [u \in Urls |-> NoJob]
    /\ worker = [pc |-> "none", job |-> NoJob]
    /\ cancelling = NoJob
    /\ stopPc = "idle"
    /\ ext = [meter |-> NoMeter, waiter |-> NoWaiter,
              importers |-> [t \in Callers |-> NoImport],
              pruner |-> NoPrune,
              boot |-> NoBoot,
              models |-> NoModels,
              mover |-> NoMover,
              guard |-> NoGuard]

\* ----------------------------------------------------------- import_model
\* The ModelInstallJob built by _import_local_model / _import_remote_model.
\* parts: the status of each DownloadJob of download_parts; creq: the parts
\* were sent a cancel that the download queue has not answered for all of
\* them yet.  tmpdir: _install_tmpdir is set.  evts, puts, rmtrees and
\* cancels record what was done for the job: the events emitted, the puts
\* into the install queue, the rmtree calls and the callers' cancel_job
\* calls; the scratch directory exists until the first rmtree.  html: some
\* part's content_type contains "text/html".
NewJob(id, stored) ==
    [ id |-> id,
      source |-> stored,
      status |-> WAITING,
      parts |-> [p \in 1..NumFiles(stored.kind) |-> "waiting"],
      creq |-> FALSE,
      tmpdir |-> stored.kind # "local",
      error |-> "none",
      evts |-> <<>>,
      puts |-> 0,
      rmtrees |-> 0,
      cancels |-> 0,
      html |-> FALSE ]

\* [x for x in self.list_jobs() if x.source == source and not x.in_terminal_state]
similar_jobs(source) ==
    SelectSeq(installJobs,
              LAMBDA i : jobs[i].source = source /\ ~in_terminal_state(jobs[i]))

\* _import_from_hf: source.access_token = source.access_token or HfFolder.get_token()
\* changes the source object the job keeps.
StoredSource(source) ==
    IF source.kind = "repo" /\ source.token = "none"
    THEN [source EXCEPT !.token = hfToken]
    ELSE source

ImportModel(source) ==
    /\ running
    /\ IF similar_jobs(source) # <<>>
       THEN UNCHANGED vars         \* returns similar_jobs[0]
       ELSE /\ nextJobId < MaxJobs
            /\ lock = "free"       \* _next_id takes the lock
            /\ LET id == nextJobId
                   stored == StoredSource(source)
                   js0 == [i \in 0..id |-> IF i = id THEN NewJob(id, stored) ELSE jobs[i]]
                   r == IF source.kind = "local"
                        THEN _put_in_queue(js0, installQueue, id, FALSE)
                        ELSE St(js0, installQueue, FALSE)
               IN  /\ nextJobId' = id + 1
                   /\ jobs' = r.jobs
                   /\ installQueue' = r.queue
                   /\ lock' = IF r.blocked THEN "import" ELSE lock
                   /\ installJobs' = IF r.blocked THEN installJobs ELSE Append(installJobs, id)
                   /\ downloadCache' =
                          [u \in Urls |->
                              IF \E p \in 1..NumFiles(stored.kind) : Url(stored.kind, p) = u
                              THEN id ELSE downloadCache[u]]
            /\ UNCHANGED <<ext, hfToken, running, stopEvent, worker, cancelling, stopPc>>

\* ------------------------------------------------------------------ start
\* The service is started once: after stop() "the object can be deleted and
\* garbage collected".
Start ==
    /\ ~running                 \* else "Attempt to start the installer service twice"
    /\ worker.pc = "none"
    /\ lock = "free"
    /\ running' = TRUE
    /\ worker' = [pc |-> "idle", job |-> NoJob]
    /\ UNCHANGED <<ext, hfToken, stopEvent, lock, nextJobId, jobs, installJobs, installQueue,
                   downloadCache, cancelling, stopPc>>

\* -------------------------------------------- the install worker thread
\* _install_next_item.  worker.pc: "none" (no thread yet), "idle" (at the
\* loop head or in _install_queue.get), "install" (inside
\* _register_or_install, after _signal_job_running), "exited" (left the loop
\* on the stop event), "dead" (an exception left the thread).
WorkerCheckStop ==
    /\ worker.pc = "idle"
    /\ stopEvent
    /\ worker' = [worker EXCEPT !.pc = "exited"]
    /\ UNCHANGED <<ext, hfToken, running, stopEvent, lock, nextJobId, jobs, installJobs, installQueue,
                   downloadCache, cancelling, stopPc>>

\* _set_error(job, excp): job.set_error(excp), or, when a part's content
\* type is HTML, job.set_error(InvalidModelConfigException("... is an HTML
\* page, not a model ...")); then _signal_job_errored(job)
HtmlPage == "InvalidModelConfig: HTML page"
_set_error(job, etype) ==
    _signal_job_errored(JobSetError(job, IF job.html THEN HtmlPage ELSE etype))

\* The finally block of the per-job try: rmtree(job._install_tmpdir) when it
\* is set, then _install_completed_event.set() and task_done().
Finally(job) == IF job.tmpdir THEN [job EXCEPT !.rmtrees = @ + 1] ELSE job

\* rmtree of a directory that no longer exists raises FileNotFoundError out
\* of the finally block and out of the thread's loop.
FinallyRaises(job) == job.tmpdir /\ ~TmpdirExists(job)

\* job = get(); then the dispatch: a cancelled or errored job gets its
\* event and the finally block; a waiting or downloads_done job enters
\* _register_or_install, which sets the sizes and calls _signal_job_running;
\* a job in any other status gets the finally block only.
WorkerGet ==
    /\ worker.pc = "idle"
    /\ ~stopEvent
    /\ installQueue # <<>>
    /\ LET j == Head(installQueue)
           st == jobs[j].status
       IN  /\ installQueue' = Tail(installQueue)
           /\ jobs' = [jobs EXCEPT ![j] =
                          IF st = CANCELLED THEN Finally(_signal_job_cancelled(@))
                          ELSE IF st = ERROR THEN Finally(_signal_job_errored(@))
                          ELSE IF st \in {WAITING, DOWNLOADS_DONE} THEN _signal_job_running(@)
                          ELSE Finally(@)]
           /\ worker' = IF st \in {WAITING, DOWNLOADS_DONE} THEN [pc |-> "install", job |-> j]
                        ELSE IF FinallyRaises(jobs[j]) THEN [pc |-> "dead", job |-> NoJob]
                        ELSE [pc |-> "idle", job |-> NoJob]
    /\ UNCHANGED <<ext, hfToken, running, stopEvent, lock, nextJobId, installJobs,
                   downloadCache, cancelling, stopPc>>

\* The rest of _register_or_install: register_path / install_path either
\* return a key (then _signal_job_completed) or raise (probe rejects the
\* file, DuplicateModelException, OSError), which `except Exception` turns
\* into _set_error; then the finally block.
WorkerInstall(ok) ==
    /\ worker.pc = "install"
    /\ LET j == worker.job
       IN  /\ jobs' = [jobs EXCEPT ![j] =
                          Finally(IF ok THEN _signal_job_completed(@)
                                        ELSE _set_error(@, "InstallError"))]
           /\ worker' = IF FinallyRaises(jobs[j]) THEN [pc |-> "dead", job |-> NoJob]
                        ELSE [pc |-> "idle", job |-> NoJob]
    /\ UNCHANGED <<ext, hfToken, running, stopEvent, lock, nextJobId, installJobs, installQueue,
                   downloadCache, cancelling, stopPc>>

\* ------------------------------------------------------------- cancel_job
\* cancel_job(job), first statement: job.cancel(), without the lock.
RECURSIVE SumCancels(_)
SumCancels(n) == IF n = 0 THEN 0 ELSE jobs[n - 1].cancels + SumCancels(n - 1)
CancelCalls == SumCancels(nextJobId)

CancelMark(j) ==
    /\ running
    /\ cancelling = NoJob
    /\ CancelCalls < MaxCancels
    /\ cancelling' = j
    /\ jobs' = [jobs EXCEPT ![j] = [JobCancel(@) EXCEPT !.cancels = @ + 1]]
    /\ UNCHANGED <<ext, hfToken, running, stopEvent, lock, nextJobId, installJobs, installQueue,
                   downloadCache, worker, stopPc>>

\* cancel_job(job), second statement: with self._lock: _cancel_download_parts(job)
CancelCascade ==
    /\ cancelling # NoJob
    /\ lock = "free"
    /\ LET r == _cancel_download_parts(jobs, installQueue, cancelling)
       IN  /\ jobs' = r.jobs
           /\ installQueue' = r.queue
           /\ lock' = IF r.blocked THEN "cancel_job" ELSE lock
           /\ cancelling' = IF r.blocked THEN cancelling ELSE NoJob
    /\ UNCHANGED <<ext, hfToken, running, stopEvent, nextJobId, installJobs,
                   downloadCache, worker, stopPc>>

\* ------------------------------------------------------------------- stop
\* _clear_pending_jobs, the loop `for job in self.list_jobs()` from position
\* i on: cancel_job(job) for every job that is not in a terminal state.
\* lockFree: self._lock can be taken.
RECURSIVE _clear_pending_jobs(_, _, _, _)
_clear_pending_jobs(js, q, i, lockFree) ==
    IF i > Len(installJobs) THEN St(js, q, FALSE)
    ELSE LET j == installJobs[i]
             marked == [js EXCEPT ![j] = JobCancel(@)]
             r == IF in_terminal_state(js[j]) THEN St(js, q, FALSE)
                  ELSE IF ~lockFree THEN St(marked, q, TRUE)
                  ELSE CancelDownloadParts(marked, q, j, TRUE)
         IN  IF r.blocked THEN r
             ELSE _clear_pending_jobs(r.jobs, r.queue, i + 1, lockFree)

\* stop() up to the join: the _running check, _stop_event.set(),
\* _clear_pending_jobs() with its loop draining the install queue by
\* get(block=False), and _download_cache.clear().
StopClear ==
    /\ running                  \* else "Attempt to stop the install service before it was started"
    /\ stopPc = "idle"
    /\ stopEvent' = TRUE
    /\ LET r == _clear_pending_jobs(jobs, installQueue, 1, lock = "free")
       IN  /\ jobs' = r.jobs
           /\ installQueue' = IF r.blocked THEN r.queue ELSE <<>>
           /\ downloadCache' = IF r.blocked THEN downloadCache ELSE [u \in Urls |-> NoJob]
           /\ lock' = IF r.blocked /\ lock = "free" THEN "stop" ELSE lock
           /\ stopPc' = IF r.blocked THEN "blocked" ELSE "join"
    /\ UNCHANGED <<ext, hfToken, running, nextJobId, installJobs, worker, cancelling>>

\* self._install_thread.join(); self._running = False
StopJoin ==
    /\ stopPc = "join"
    /\ worker.pc \in {"exited", "dead"}
    /\ running' = FALSE
    /\ stopPc' = "idle"
    /\ UNCHANGED <<ext, hfToken, stopEvent, lock, nextJobId, jobs, installJobs, installQueue,
                   downloadCache, worker, cancelling>>

\* --------------------------------------------------- download callbacks
\* The download queue sets the part's status and then calls the callback on
\* one of its threads; the callback body runs under self._lock.  A cancel
\* request does not stop a callback that is already on its way, so start,
\* progress, complete and error can still arrive for a part that was sent a
\* cancel.
SetPart(js, j, p, st) ==
    LET parts == [js[j].parts EXCEPT ![p] = st]
    IN  [js EXCEPT ![j].parts = parts,
                   ![j].creq = @ /\ \E q \in DOMAIN parts : parts[q] \in PartActive]
PartUrl(j, p) == Url(jobs[j].source.kind, p)

\* _download_started_callback
DownloadStarted(j, p) ==
    /\ jobs[j].parts[p] = "waiting"
    /\ lock = "free"
    /\ LET js1 == SetPart(jobs, j, p, "running")
           t == downloadCache[PartUrl(j, p)]
       IN  jobs' = IF t = NoJob THEN js1      \* KeyError
                   ELSE [js1 EXCEPT ![t].status = DOWNLOADING]
    /\ UNCHANGED <<ext, hfToken, running, stopEvent, lock, nextJobId, installJobs, installQueue,
                   downloadCache, worker, cancelling, stopPc>>

\* _download_progress_callback
DownloadProgress(j, p) ==
    /\ jobs[j].parts[p] = "running"
    /\ lock = "free"
    /\ LET t == downloadCache[PartUrl(j, p)]
           r == IF t # NoJob /\ jobs[t].status = CANCELLED
                THEN _cancel_download_parts(jobs, installQueue, t)
                ELSE St(jobs, installQueue, FALSE)   \* KeyError, or the sizes are updated
       IN  /\ jobs' = r.jobs
           /\ installQueue' = r.queue
           /\ lock' = IF r.blocked THEN "callback" ELSE lock
    /\ UNCHANGED <<ext, hfToken, running, stopEvent, nextJobId, installJobs,
                   downloadCache, worker, cancelling, stopPc>>

\* _download_complete_callback
DownloadComplete(j, p) ==
    /\ jobs[j].parts[p] = "running"
    /\ lock = "free"
    /\ LET js1 == SetPart(jobs, j, p, "completed")
           u == PartUrl(j, p)
           t == downloadCache[u]
           r == IF t = NoJob THEN St(js1, installQueue, FALSE)      \* KeyError
                ELSE IF js1[t].status = DOWNLOADING /\ AllPartsComplete(js1[t])
                THEN _put_in_queue([js1 EXCEPT ![t] = _signal_job_downloads_done(@)],
                                   installQueue, t, TRUE)
                ELSE St(js1, installQueue, FALSE)
       IN  /\ jobs' = r.jobs
           /\ installQueue' = r.queue
           /\ lock' = IF r.blocked THEN "callback" ELSE lock
           /\ downloadCache' = IF r.blocked THEN downloadCache
                               ELSE [downloadCache EXCEPT ![u] = NoJob]
    /\ UNCHANGED <<ext, hfToken, running, stopEvent, nextJobId, installJobs,
                   worker, cancelling, stopPc>>

\* _download_error_callback
DownloadError(j, p) ==
    /\ jobs[j].parts[p] \in PartActive
    /\ lock = "free"
    /\ LET js1 == SetPart(jobs, j, p, "error")
           u == PartUrl(j, p)
           t == downloadCache[u]
           r == IF t = NoJob THEN St(js1, installQueue, FALSE)      \* assert install_job is not None
                ELSE _cancel_download_parts(
                         [js1 EXCEPT ![t] = JobSetError(@, "DownloadError")], installQueue, t)
       IN  /\ jobs' = r.jobs
           /\ installQueue' = r.queue
           /\ lock' = IF r.blocked THEN "callback" ELSE lock
           /\ downloadCache' = [downloadCache EXCEPT ![u] = NoJob]
    /\ UNCHANGED <<ext, hfToken, running, stopEvent, nextJobId, installJobs,
                   worker, cancelling, stopPc>>

\* _download_cancelled_callback
DownloadCancelled(j, p) ==
    /\ jobs[j].parts[p] \in PartActive
    /\ jobs[j].creq
    /\ lock = "free"
    /\ LET js1 == SetPart(jobs, j, p, "cancelled")
           u == PartUrl(j, p)
           t == downloadCache[u]
           r == IF t = NoJob THEN St(js1, installQueue, FALSE)      \* if not install_job: return
                ELSE _cancel_download_parts(
                         IF js1[t].status = ERROR THEN js1
                         ELSE [js1 EXCEPT ![t] = JobCancel(@)], installQueue, t)
       IN  /\ jobs' = r.jobs
           /\ installQueue' = r.queue
           /\ lock' = IF r.blocked THEN "callback" ELSE lock
           /\ downloadCache' = [downloadCache EXCEPT ![u] = NoJob]
    /\ UNCHANGED <<ext, hfToken, running, stopEvent, nextJobId, installJobs,
                   worker, cancelling, stopPc>>

\* The download queue reads the response headers of part p of job j and sets
\* the part's content_type, here to one that contains "text/html".
ContentTypeHtml(j, p) ==
    /\ jobs[j].parts[p] = "running"
    /\ ~jobs[j].html
    /\ jobs' = [jobs EXCEPT ![j].html = TRUE]
    /\ UNCHANGED <<ext, hfToken, running, stopEvent, lock, nextJobId, installJobs,
                   installQueue, downloadCache, worker, cancelling, stopPc>>

\* ------------------------------------------- import_model, step by step
\* import_model as the steps of one caller thread t, so that several
\* threads can be inside it at once.  First the similar_jobs check.
ImpCheck(t, source) ==
    /\ running
    /\ importers[t].pc = "idle"
    /\ similar_jobs(source) = <<>>        \* else similar_jobs[0] is returned
    /\ ext' = [ext EXCEPT !.importers[t] = [pc |-> "next_id", source |-> source, id |-> NoJob]]
    /\ UNCHANGED core

\* A _next_id that does not wait for the lock.
LockIgnored == TRUE

\* _next_id: `with self._lock:` is entered when no thread holds the lock.
LockAvailable == lock = "free"

\* _next_id: with self._lock: id = self._next_job_id
ImpIdRead(t) ==
    /\ importers[t].pc = "next_id"
    /\ nextJobId < MaxJobs
    /\ LockAvailable
    /\ lock' = "next_id"
    /\ ext' = [ext EXCEPT !.importers[t].pc = "id_write", !.importers[t].id = nextJobId]
    /\ UNCHANGED <<hfToken, running, stopEvent, nextJobId, jobs, installJobs, installQueue,
                   downloadCache, worker, cancelling, stopPc>>

\* _next_id: self._next_job_id += 1, and the lock is released
ImpIdWrite(t) ==
    /\ importers[t].pc = "id_write"
    /\ nextJobId' = nextJobId + 1
    /\ lock' = "free"
    /\ ext' = [ext EXCEPT !.importers[t].pc = "append"]
    /\ UNCHANGED <<hfToken, running, stopEvent, jobs, installJobs, installQueue,
                   downloadCache, worker, cancelling, stopPc>>

\* The rest of import_model: the job is built (a remote job's parts go into
\* the download cache), a local job is put into the install queue, and
\* self._install_jobs.append(install_job).
ImpAppend(t) ==
    /\ importers[t].pc = "append"
    /\ Len(installJobs) < MaxJobs
    /\ LET id == importers[t].id
           source == importers[t].source
           stored == StoredSource(source)
           js0 == [i \in JobIds \cup {id} |-> IF i = id THEN NewJob(id, stored) ELSE jobs[i]]
           r == IF source.kind = "local"
                THEN _put_in_queue(js0, installQueue, id, FALSE)
                ELSE St(js0, installQueue, FALSE)
       IN  /\ jobs' = r.jobs
           /\ installQueue' = r.queue
           /\ installJobs' = Append(installJobs, id)
           /\ downloadCache' =
                  [u \in Urls |->
                      IF \E p \in 1..NumFiles(stored.kind) : Url(stored.kind, p) = u
                      THEN id ELSE downloadCache[u]]
    /\ ext' = [ext EXCEPT !.importers[t] = NoImport]
    /\ UNCHANGED <<hfToken, running, stopEvent, lock, nextJobId, worker, cancelling, stopPc>>

\* -------------------------------------------------------------- prune_jobs
\* unfinished_jobs = [x for x in self._install_jobs if not x.in_terminal_state]
PruneRead ==
    /\ pruner.pc = "idle"
    /\ installJobs # <<>>
    /\ ext' = [ext EXCEPT !.pruner =
                   [pc |-> "assign",
                    unfinished |-> SelectSeq(installJobs,
                                             LAMBDA i : ~in_terminal_state(jobs[i]))]]
    /\ UNCHANGED core

\* self._install_jobs = unfinished_jobs; prune_jobs takes no lock.
PruneAssign ==
    /\ pruner.pc = "assign"
    /\ installJobs' = pruner.unfinished
    /\ ext' = [ext EXCEPT !.pruner = NoPrune]
    /\ UNCHANGED <<hfToken, running, stopEvent, lock, nextJobId, jobs, installQueue,
                   downloadCache, worker, cancelling, stopPc>>

\* ------------------------------------------------- start, step by step
\* The disk and the configuration the service is constructed over.
Provision(left, scan, conf, fs) ==
    /\ ~boot.provisioned
    /\ ~running
    /\ ext' = [ext EXCEPT !.boot =
                   [boot EXCEPT !.provisioned = TRUE, !.leftover = left, !.scan = scan,
                                !.configured = conf, !.cfg = conf, !.files = fs]]
    /\ UNCHANGED core

Smaller(a, b) == IF a < b THEN a ELSE b
WorkerLive == worker.pc \in {"idle", "install"}
\* The install worker threads that exist.
Workers == boot.extra + (IF WorkerLive THEN 1 ELSE 0)

\* `if self._running:` of start().
NeverRunning == FALSE
AlreadyRunning == running

\* _remove_dangling_install_dirs: rmtree of every tmpinstall_ directory;
\* ok: the rmtree calls succeed.
_remove_dangling_install_dirs(b, ok) ==
    IF b.leftover /\ ~ok THEN [b EXCEPT !.outcome = "OSError"]
    ELSE [b EXCEPT !.leftover = FALSE, !.steps = @ \cup {"scrub"}]

\* legacy_models_yaml_path.rename(legacy_models_yaml_path.with_suffix(".yaml.bak"))
NotRenamed(file) == file
Renamed(file) == [file EXCEPT !.ver = "bak"]

Exists(file) == file.ver \notin {"none", "bak"}

\* _migrate_yaml; k: how many of the register_path calls succeed at most.
_migrate_yaml(b, k) ==
    LET f == IF b.cfg = "unset" THEN "default" ELSE b.cfg
        file == b.files[f]
        registered == IF b.store = 0 /\ file.n # 0 THEN Smaller(k, file.n) ELSE 0
    IN  IF ~Exists(file)
        THEN [b EXCEPT !.cfg = "unset", !.steps = @ \cup {"migrate"}]
        ELSE IF file.ver # "3.0.0"
        THEN [b EXCEPT !.outcome = "ValueError"]
        ELSE [b EXCEPT !.store = @ + registered,
                       !.files[f] = Renamed(file),
                       !.cfg = "unset",
                       !.v3passes[f] = @ + 1,
                       !.pass = [call |-> b.calls, file |-> f,
                                 registered |-> registered, empty |-> b.store = 0],
                       !.steps = @ \cup {"migrate"}]

\* _register_orphaned_models, when scan_models_on_startup is set; o: the
\* orphaned models found under the models root.
_register_orphaned_models(b, o) ==
    IF b.scan
    THEN [b EXCEPT !.store = Smaller(@ + o, MaxEntries), !.steps = @ \cup {"orphans"}]
    ELSE b

\* The loop over _scan_for_missing_models(), which only logs; start()
\* returns after it.
_scan_for_missing_models(b) ==
    [b EXCEPT !.steps = @ \cup {"missing"}, !.outcome = "returned"]

\* start(): the SIGINT handler is installed, then everything else runs
\* under self._lock.  An exception raised by a step leaves start() at once:
\* start() has no try/except.
StartCall(ok, k, o) ==
    /\ boot.provisioned
    /\ boot.calls < MaxStarts
    /\ lock = "free"
    /\ LET b0 == [boot EXCEPT !.calls = @ + 1, !.sigint = "installer"]
       IN  IF AlreadyRunning
           THEN /\ ext' = [ext EXCEPT !.boot = [b0 EXCEPT !.outcome = "AlreadyStarted"]]
                /\ UNCHANGED <<running, worker>>
           ELSE LET b1 == [b0 EXCEPT !.outcome = "none", !.steps = {"spawn"},
                                     !.extra = @ + (IF WorkerLive THEN 1 ELSE 0)]
                    b2 == _remove_dangling_install_dirs(b1, ok)
                    b3 == IF b2.outcome = "none" THEN _migrate_yaml(b2, k) ELSE b2
                    b4 == IF b3.outcome = "none"
                          THEN _scan_for_missing_models(_register_orphaned_models(b3, o))
                          ELSE b3
                IN  /\ ext' = [ext EXCEPT !.boot = b4]
                    /\ running' = TRUE
                    /\ worker' = [pc |-> "idle", job |-> NoJob]
    /\ UNCHANGED <<hfToken, stopEvent, lock, nextJobId, jobs, installJobs, installQueue,
                   downloadCache, cancelling, stopPc>>

\* unregister(key): record_store.del_model(key)
Unregister ==
    /\ boot.store > 0
    /\ ext' = [ext EXCEPT !.boot = [boot EXCEPT !.store = @ - 1]]
    /\ UNCHANGED core

\* The process ends and a new one constructs the service again: the threads
\* are gone, the configuration is read again, the disk and the records
\* store stay.
Reboot ==
    /\ boot.calls > 0
    /\ jobs = <<>>
    /\ running' = FALSE
    /\ stopEvent' = FALSE
    /\ lock' = "free"
    /\ worker' = [pc |-> "none", job |-> NoJob]
    /\ stopPc' = "idle"
    /\ ext' = [ext EXCEPT !.boot =
                   [boot EXCEPT !.cfg = boot.configured, !.extra = 0, !.sigint = "default",
                                !.outcome = "none", !.steps = {}]]
    /\ UNCHANGED <<hfToken, nextJobId, jobs, installJobs, installQueue, downloadCache,
                   cancelling>>

\* ------------------------------- install_path, register_path and delete
\* A model file or directory is put at /src/<name>, outside the models root.
PlaceModel(n, entry) ==
    /\ models.calls = 0
    /\ models.outside[n] = NoEntry
    /\ ext' = [ext EXCEPT !.models = [models EXCEPT !.outside[n] = entry]]
    /\ UNCHANGED core

\* The model file at /src/<name> is replaced by another one of that name.
ReplaceModel(n, entry) ==
    /\ models.outside[n] # NoEntry
    /\ models.outside[n] # entry
    /\ models.calls < MaxKeys
    /\ ext' = [ext EXCEPT !.models = [models EXCEPT !.outside[n] = entry]]
    /\ UNCHANGED core

\* _copy_model(old_path, new_path) with old_path # new_path: copytree
\* raises FileExistsError when new_path exists; copyfile writes new_path
\* whether it exists or not (onto a directory it raises IsADirectoryError).
\* The result is [raised, tree].
_copy_model(f, n) ==
    LET src == f.outside[n]
        dst == f.tree[n]
    IN  IF src.kind = "dir"
        THEN IF dst # NoEntry THEN [raised |-> "FileExistsError", tree |-> f.tree]
             ELSE [raised |-> "none", tree |-> [f.tree EXCEPT ![n] = src]]
        ELSE IF dst.kind = "dir" THEN [raised |-> "IsADirectoryError", tree |-> f.tree]
             ELSE [raised |-> "none", tree |-> [f.tree EXCEPT ![n] = src]]

\* _register: record_store.add_model(info) under a new opaque key.
_register(store, n, inside) == Append(store, [path |-> n, inside |-> inside, live |-> TRUE])

\* install_path(/src/<name>)
InstallPath(n) ==
    /\ models.outside[n] # NoEntry
    /\ models.calls < MaxKeys
    /\ LET c == _copy_model(models, n)
           raised == IF c.raised = "FileExistsError" THEN "Duplicate" ELSE c.raised
       IN  ext' = [ext EXCEPT !.models =
                      [models EXCEPT !.tree = c.tree,
                                 !.store = IF raised = "none" THEN _register(@, n, TRUE) ELSE @,
                                 !.calls = @ + 1,
                                 !.last = [op |-> "install_path", key |-> 0, name |-> n,
                                           result |-> raised]]]
    /\ UNCHANGED core

\* register_path(/src/<name>): the model is recorded where it lies.
RegisterPath(n) ==
    /\ models.outside[n] # NoEntry
    /\ models.calls < MaxKeys
    /\ ext' = [ext EXCEPT !.models =
                   [models EXCEPT !.store = _register(@, n, FALSE),
                              !.calls = @ + 1,
                              !.last = [op |-> "register_path", key |-> 0, name |-> n,
                                        result |-> "none"]]]
    /\ UNCHANGED core

\* `if model_path.is_relative_to(self.app_config.models_path):` of delete.
EverythingInside(rec) == TRUE
InModelsRoot(rec) == rec.inside

\* unconditionally_delete(key), the part before unregister: unlink or
\* rmtree of what lies at the recorded path.
unconditionally_delete(m, rec) ==
    IF rec.inside THEN [m EXCEPT !.tree[rec.path] = NoEntry]
    ELSE [m EXCEPT !.outside[rec.path] = NoEntry]

\* unregister(key): record_store.del_model(key)
UnregisterModel(key) ==
    /\ key \in DOMAIN models.store
    /\ models.store[key].live
    /\ ext' = [ext EXCEPT !.models =
                   [models EXCEPT !.store[key].live = FALSE,
                              !.last = [op |-> "unregister", key |-> key, name |-> "",
                                        result |-> "none"]]]
    /\ UNCHANGED core

\* delete(key): unconditionally_delete(key) for a model in the models root
\* (unlink or rmtree, then unregister), else unregister(key) alone.
DeleteModel(key) ==
    /\ key \in DOMAIN models.store
    /\ models.store[key].live
    /\ LET rec == models.store[key]
           m == IF InModelsRoot(rec) THEN unconditionally_delete(models, rec) ELSE models
       IN  ext' = [ext EXCEPT !.models =
                      [m EXCEPT !.store[key].live = FALSE,
                                !.last = [op |-> "delete", key |-> key, name |-> "",
                                          result |-> "none"]]]
    /\ UNCHANGED core

\* ------------------------------------------------------------ _move_model
\* Something else creates a file or directory in the directory.
Touch(p) ==
    /\ p \notin mover.dir
    /\ Cardinality(mover.dir) <= MaxTaken
    /\ ext' = [ext EXCEPT !.mover = [dir |-> mover.dir \cup {p}, last |-> NoMove]]
    /\ UNCHANGED core

\* `if not path.exists():` inside the loop of _move_model.
AlwaysFree(dir, path) == TRUE
Free(dir, path) == path \notin dir

\* The loop `while new_path.exists():` of _move_model, from `counter` on.
RECURSIVE Jigger(_, _, _)
Jigger(dir, new_path, counter) ==
    IF new_path \notin dir THEN new_path
    ELSE LET path == Jiggered(new_path, counter)
         IN  Jigger(dir, IF Free(dir, path) THEN path ELSE new_path, counter + 1)

\* _move_model(old_path, new_path): the path returned.
_move_model(dir, old_path, new_path) ==
    IF old_path = new_path THEN old_path ELSE Jigger(dir, new_path, 1)

\* A _move_model(old_path, new_path) call; move(old_path, new_path) takes
\* old_path away from where it was.
MoveModel(old_path, new_path) ==
    /\ old_path \in mover.dir \cup SrcPaths
    /\ Cardinality(mover.dir) <= MaxTaken + 1
    /\ LET result == _move_model(mover.dir, old_path, new_path)
       IN  ext' = [ext EXCEPT !.mover =
                      [dir |-> IF old_path = new_path THEN mover.dir
                               ELSE (mover.dir \ {old_path}) \cup {result},
                       last |-> [old |-> old_path, new |-> new_path, result |-> result,
                                 before |-> mover.dir, called |-> TRUE]]]
    /\ UNCHANGED core

\* ------------------------------------------------------- lock discipline
\* Thread t makes the next step of its handler; after the last step it can
\* be called again.
HandlerStep(t) ==
    LET steps == Handlers[t]
        step == steps[guard.pc[t]]
        next == IF guard.pc[t] = Len(steps) THEN 1 ELSE guard.pc[t] + 1
    IN  /\ step.op = "acquire" => guard.holder = "none"
        /\ ext' = [ext EXCEPT !.guard =
                       [holder |-> IF step.op = "acquire" THEN t
                                   ELSE IF step.op = "release" THEN "none"
                                   ELSE guard.holder,
                        pc |-> [guard.pc EXCEPT ![t] = next],
                        last |-> IF step.op = "write"
                                 THEN [field |-> step.field, by |-> t,
                                       locked |-> guard.holder = t]
                                 ELSE guard.last]]
        /\ UNCHANGED core

\* ------------------------------------------------------ wait_for_installs
\* Items of the install queue that task_done() was not called for: the
\* queued ones, the one the worker is installing, and the one whose finally
\* block raised before task_done().
UnfinishedTasks ==
    Len(installQueue) + (IF worker.pc \in {"install", "dead"} THEN 1 ELSE 0)

\* wait_for_installs is called.
WaitBegin ==
    /\ running
    /\ waiter.pc = "idle"
    /\ ext' = [ext EXCEPT !.waiter =
                   [pc |-> "loop",
                    seen |-> {installJobs[i] : i \in 1..Len(installJobs)}]]
    /\ UNCHANGED core

\* `while len(self._download_cache) > 0` finds the cache empty.
WaitLoopExit ==
    /\ waiter.pc = "loop"
    /\ \A u \in Urls : downloadCache[u] = NoJob
    /\ ext' = [ext EXCEPT !.waiter.pc = "join"]
    /\ UNCHANGED core

\* self._install_queue.join() returns; return self._install_jobs
WaitJoin ==
    /\ waiter.pc = "join"
    /\ UnfinishedTasks = 0
    /\ ext' = [ext EXCEPT !.waiter.pc = "returned"]
    /\ UNCHANGED core

\* --------------------------------------------------------- byte counts
\* The byte bookkeeping of one remote job: what _import_remote_model and the
\* start and progress callbacks do to total_bytes and bytes.
RECURSIVE SumSeq(_)
SumSeq(q) == IF q = <<>> THEN 0 ELSE Head(q) + SumSeq(Tail(q))

\* _import_remote_model: bytes=0, total_bytes=0, then
\* `install_job.total_bytes += model_file.size` for every remote file.
MeterImport(meta) ==
    /\ meter = NoMeter
    /\ ext' = [ext EXCEPT !.meter =
                   [meta |-> meta,
                    started |-> [p \in DOMAIN meta |-> FALSE],
                    ptotal |-> [p \in DOMAIN meta |-> 0],
                    pbytes |-> [p \in DOMAIN meta |-> 0],
                    total |-> SumSeq(meta),
                    bytes |-> 0]]
    /\ UNCHANGED core

\* _download_started_callback for part p, whose total_bytes the download
\* queue has set to the length tb of the file:
\* `if not install_job.total_bytes: install_job.total_bytes = sum(x.total_bytes ...)`
\* The metadata gave either the file's length or 0 (RemoteModelFile(size=0)).
MeterStarted(p, tb) ==
    /\ p \in DOMAIN meter.meta
    /\ ~meter.started[p]
    /\ meter.meta[p] \in {0, tb}
    /\ LET pt == [meter.ptotal EXCEPT ![p] = tb]
       IN  ext' = [ext EXCEPT !.meter.started[p] = TRUE,
                              !.meter.ptotal = pt,
                              !.meter.total = IF @ = 0 THEN SumSeq(pt) ELSE @]
    /\ UNCHANGED core

\* _download_progress_callback for part p, which has b bytes by now:
\* `install_job.bytes = sum(x.bytes ...)`, then the install-downloading
\* event with bytes and total_bytes.
MeterProgress(p, b) ==
    /\ p \in DOMAIN meter.meta
    /\ meter.started[p]
    /\ meter.pbytes[p] < b
    /\ b <= meter.ptotal[p]
    /\ LET pb == [meter.pbytes EXCEPT ![p] = b]
       IN  ext' = [ext EXCEPT !.meter.pbytes = pb, !.meter.bytes = SumSeq(pb)]
    /\ UNCHANGED core

\* ------------------------------------------------------- specifications
\* The callers' import_model calls, the worker and the download queue.
Serve ==
    \/ \E source \in SubmitSources : ImportModel(source)
    \/ Start
    \/ WorkerGet
    \/ \E ok \in BOOLEAN : WorkerInstall(ok)
    \/ \E j \in JobIds : \E p \in DOMAIN jobs[j].parts : DownloadStarted(j, p)
    \/ \E j \in JobIds : \E p \in DOMAIN jobs[j].parts : DownloadProgress(j, p)
    \/ \E j \in JobIds : \E p \in DOMAIN jobs[j].parts : DownloadComplete(j, p)
    \/ \E j \in JobIds : \E p \in DOMAIN jobs[j].parts : DownloadError(j, p)
    \/ \E j \in JobIds : \E p \in DOMAIN jobs[j].parts : DownloadCancelled(j, p)

\* A service that is started and used, with callers cancelling jobs.
Next ==
    \/ Serve
    \/ \E j \in JobIds : CancelMark(j)
    \/ CancelCascade

Spec == Init /\ [][Next]_vars

\* A service that is started, used and stopped.
NextStop ==
    \/ Serve
    \/ StopClear
    \/ StopJoin
    \/ WorkerCheckStop

SpecStop == Init /\ [][NextStop]_vars

\* The byte counts of a remote job while it downloads.
NextBytes ==
    \/ \E n \in 1..MaxParts : \E meta \in [1..n -> 0..MaxSize] : MeterImport(meta)
    \/ \E p \in 1..MaxParts : \E tb \in 1..MaxSize : MeterStarted(p, tb)
    \/ \E p \in 1..MaxParts : \E b \in 1..MaxSize : MeterProgress(p, b)

SpecBytes == Init /\ [][NextBytes]_vars

\* A service in use with a caller pruning the job table.
NextPrune ==
    \/ Serve
    \/ PruneRead
    \/ PruneAssign

SpecPrune == Init /\ [][NextPrune]_vars

\* The service started, stopped and started again over a disk that may hold
\* leftover scratch directories and legacy models.yaml files.
NextStart ==
    \/ \E left, scan \in BOOLEAN : \E conf \in {"unset", "custom"} :
          \E fs \in [Paths -> FileStates] : Provision(left, scan, conf, fs)
    \/ \E ok \in BOOLEAN : \E k \in 0..MaxEntries : \E o \in 0..1 : StartCall(ok, k, o)
    \/ Unregister
    \/ StopClear
    \/ StopJoin
    \/ WorkerCheckStop
    \/ Reboot

SpecStart == Init /\ [][NextStart]_vars

\* Models installed into, registered with and deleted from the models root.
NextFiles ==
    \/ \E n \in ModelNames : \E entry \in Entries : PlaceModel(n, entry)
    \/ \E n \in ModelNames : \E entry \in Entries : ReplaceModel(n, entry)
    \/ \E n \in ModelNames : InstallPath(n)
    \/ \E n \in ModelNames : RegisterPath(n)
    \/ \E key \in 1..MaxKeys : UnregisterModel(key)
    \/ \E key \in 1..MaxKeys : DeleteModel(key)

SpecFiles == Init /\ [][NextFiles]_vars

\* Models moved into a directory in which names are taken.
NextMove ==
    \/ \E p \in DirPaths : Touch(p)
    \/ \E old_path \in DirPaths \cup SrcPaths : \E s \in Suffixes :
          MoveModel(old_path, BasePath(s))

SpecMove == Init /\ [][NextMove]_vars

\* A service in use whose threads are scheduled fairly: the worker keeps
\* running, the download queue delivers a complete, error or cancelled
\* callback for every part, and a cancel_job call under way goes on.
PartEnds(j, p) ==
    \/ DownloadComplete(j, p)
    \/ DownloadError(j, p)
    \/ DownloadCancelled(j, p)

Fairness ==
    /\ WF_vars(WorkerGet)
    /\ WF_vars(\E ok \in BOOLEAN : WorkerInstall(ok))
    /\ WF_vars(CancelCascade)
    /\ \A j \in 0..MaxJobs - 1 : \A p \in 1..MaxParts :
          WF_vars(j \in JobIds /\ p \in DOMAIN jobs[j].parts /\ PartEnds(j, p))

SpecLive == Init /\ [][Next]_vars /\ Fairness

\* The threads of the service running their handlers side by side.
NextGuard == \E t \in Threads : HandlerStep(t)

SpecGuard == Init /\ [][NextGuard]_vars

\* Caller threads inside import_model at the same time, and the worker.
NextImport ==
    \/ Start
    \/ \E t \in Callers : \E source \in SubmitSources : ImpCheck(t, source)
    \/ \E t \in Callers : ImpIdRead(t)
    \/ \E t \in Callers : ImpIdWrite(t)
    \/ \E t \in Callers : ImpAppend(t)
    \/ WorkerGet
    \/ \E ok \in BOOLEAN : WorkerInstall(ok)

SpecImport == Init /\ [][NextImport]_vars

\* A service in use with a caller in wait_for_installs.
NextWait ==
    \/ Serve
    \/ WaitBegin
    \/ WaitLoopExit
    \/ WaitJoin

SpecWait == Init /\ [][NextWait]_vars

\* A service in use whose downloads may come back as HTML pages.
NextHtml ==
    \/ Serve
    \/ \E j \in JobIds : \E p \in DOMAIN jobs[j].parts : ContentTypeHtml(j, p)

SpecHtml == Init /\ [][NextHtml]_vars

\* ------------------------------------------------------------ properties
\* Vocabulary of the properties below.
Occurrences(q, j) == Cardinality({i \in 1..Len(q) : q[i] = j})
Count(evts, ev) == Cardinality({i \in 1..Len(evts) : evts[i] = ev})

\* Nothing is left to happen to job j: it is not in the install queue, the
\* worker does not hold it, no cancel_job call on it is under way and none
\* of its downloads is active.
Settled(j) ==
    /\ Occurrences(installQueue, j) = 0
    /\ worker.job # j
    /\ cancelling # j
    /\ AllPartsTerminal(jobs[j])

\* The source as the caller submitted it: SubmitSources holds repository
\* sources without an explicit token only.
Submitted(job) ==
    IF job.source.kind = "repo" THEN [job.source EXCEPT !.token = "none"] ELSE job.source

\* The event that announces a terminal status.
TerminalEvent(st) ==
    IF st = COMPLETED THEN "completed" ELSE IF st = ERROR THEN "error" ELSE "cancelled"
TerminalEvents == {"completed", "error", "cancelled"}

\* C1: a job whose status is COMPLETED, ERROR or CANCELLED keeps that status
\* in every later state; no operation moves it to any other status.
C1_TerminalAbsorbing ==
    [][\A j \in JobIds :
          in_terminal_state(jobs[j]) => jobs'[j].status = jobs[j].status]_vars

\* C2: the non-terminal statuses are only walked forward: DOWNLOADS_DONE is
\* entered only from DOWNLOADING, RUNNING only from WAITING or
\* DOWNLOADS_DONE, COMPLETED only from RUNNING, and a job in a non-terminal
\* status never moves to an earlier non-terminal status.
Rank(st) ==
    IF st = WAITING THEN 0 ELSE IF st = DOWNLOADING THEN 1
    ELSE IF st = DOWNLOADS_DONE THEN 2 ELSE 3
C2_ForwardOnly ==
    [][\A j \in JobIds :
          LET a == jobs[j].status
              b == jobs'[j].status
          IN  a # b =>
                /\ b = DOWNLOADS_DONE => a = DOWNLOADING
                /\ b = RUNNING => a \in {WAITING, DOWNLOADS_DONE}
                /\ b = COMPLETED => a = RUNNING
                /\ (a \notin TerminalStatus /\ b \notin TerminalStatus)
                      => Rank(a) < Rank(b)]_vars

\* C3: the scratch directory of a remote job is removed once; the worker
\* never runs rmtree on it a second time.
C3_RmtreeOnce == \A j \in JobIds : jobs[j].tmpdir => jobs[j].rmtrees <= 1

\* C4: a job is in the install queue at most once at any time.
C4_QueuedOnce == \A j \in JobIds : Occurrences(installQueue, j) <= 1

\* C5: the install worker never dies: whatever is raised while it handles a
\* dequeued job, the thread goes on to the next item.
C5_WorkerAlive == worker.pc # "dead"

\* C6: import_model with a source for which a non-terminal job is already
\* in the job table creates no new job; this includes a repository source
\* submitted twice without an explicit access token.
C6_Dedup ==
    [][nextJobId' # nextJobId =>
          \A i \in 1..Len(installJobs) :
              ~ /\ ~in_terminal_state(jobs[installJobs[i]])
                /\ Submitted(jobs[installJobs[i]]) = Submitted(jobs'[nextJobId])]_vars

\* C7: stop() always returns, and when it has returned every job of the
\* job table is in a terminal state, the install queue and the download
\* cache are empty and the worker has left its loop.
StopReturned == stopEvent /\ ~running
C7_StopReturns ==
    /\ stopPc # "blocked"
    /\ StopReturned =>
          /\ \A i \in 1..Len(installJobs) : in_terminal_state(jobs[installJobs[i]])
          /\ installQueue = <<>>
          /\ \A u \in Urls : downloadCache[u] = NoJob
          /\ worker.pc = "exited"

\* C8: cancel_job is idempotent: a call on a job that cancel_job was called
\* on before leaves the job's status and events and the install queue as
\* they were; it does not put the job into the queue again.
C8_CancelIdempotent ==
    [][\A j \in JobIds :
          (cancelling = j /\ cancelling' = NoJob /\ jobs[j].cancels >= 2)
             => /\ installQueue' = installQueue
                /\ jobs'[j].status = jobs[j].status
                /\ jobs'[j].evts = jobs[j].evts]_vars

\* C9: a job that has ended in a terminal status got exactly one terminal
\* event, the one that matches its status: install-completed, install-error
\* or install-cancelled.
C9_OneTerminalEvent ==
    \A j \in JobIds :
        (in_terminal_state(jobs[j]) /\ Settled(j))
           => /\ Count(jobs[j].evts, TerminalEvent(jobs[j].status)) = 1
              /\ \A ev \in TerminalEvents \ {TerminalEvent(jobs[j].status)} :
                     Count(jobs[j].evts, ev) = 0

\* C10: a job of several parts with no cancel and no download error, once
\* all its parts are complete: downloads-done was emitted once, the job was
\* put into the install queue once, and when the worker is through with it
\* the events are downloads-done, install-running and then the event of the
\* install's outcome.
CleanDownload(j) ==
    /\ Cardinality(DOMAIN jobs[j].parts) > 1
    /\ AllPartsComplete(jobs[j])
    /\ jobs[j].cancels = 0
    /\ jobs[j].error # "DownloadError"
C10_CleanMultiPart ==
    \A j \in JobIds :
        CleanDownload(j) =>
           /\ Count(jobs[j].evts, "downloads_done") = 1
           /\ jobs[j].puts = 1
           /\ Settled(j) =>
                 \/ jobs[j].evts = <<"downloads_done", "running", "completed">>
                 \/ jobs[j].evts = <<"downloads_done", "running", "error">>

\* C11: a remote job that has ended (COMPLETED, ERROR or CANCELLED), is
\* not in the install queue, is not held by the worker and has no download
\* left has no scratch directory on disk any more.
C11_ScratchGone ==
    \A j \in JobIds :
        (jobs[j].tmpdir /\ in_terminal_state(jobs[j]) /\ Settled(j))
           => ~TmpdirExists(jobs[j])

\* C12: at every instant, and so in every install-downloading event, a
\* remote job's bytes are at most its total_bytes, whatever the number of
\* parts, the order of their callbacks and the sizes in the metadata.
C12_BytesWithinTotal == meter.bytes <= meter.total

\* C13: when wait_for_installs returns, and no job was submitted after the
\* call, the download cache is empty, the install queue is drained and
\* every job is in a terminal state.
C13_WaitForInstalls ==
    [][(waiter.pc = "join" /\ waiter'.pc = "returned" /\ JobIds = waiter.seen)
          => /\ \A u \in Urls : downloadCache'[u] = NoJob
             /\ installQueue' = <<>>
             /\ \A j \in waiter.seen : in_terminal_state(jobs'[j])]_vars

\* C14: a job with a part whose content type contains text/html that has
\* ended in ERROR and got its install-error event has the error
\* InvalidModelConfig with the HTML-page message, whatever exception was
\* raised, and its scratch directory is removed.
C14_HtmlError ==
    \A j \in JobIds :
        (jobs[j].html /\ jobs[j].status = ERROR /\ Settled(j)
            /\ Count(jobs[j].evts, "error") > 0)
           => /\ jobs[j].error = HtmlPage
              /\ ~TmpdirExists(jobs[j])

\* C15: job ids are non-negative and pairwise distinct, and every id that
\* _next_id hands out is greater than all ids handed out before, however
\* the import_model calls of several threads interleave; the job table
\* never holds the same id twice.
HeldIds == {t \in Callers : importers[t].pc \in {"id_write", "append"}}
AllocatedIds == {importers[t].id : t \in HeldIds} \cup {installJobs[i] : i \in 1..Len(installJobs)}
C15_IdsUnique ==
    /\ [](/\ \A i \in 1..Len(installJobs) : installJobs[i] >= 0
          /\ \A i, k \in 1..Len(installJobs) : i # k => installJobs[i] # installJobs[k]
          /\ \A t, u \in HeldIds : t # u => importers[t].id # importers[u].id
          /\ \A t \in HeldIds : \A i \in 1..Len(installJobs) : importers[t].id # installJobs[i])
    /\ [][\A t \in Callers :
             (importers[t].pc = "next_id" /\ importers'[t].pc = "id_write")
                => \A a \in AllocatedIds : importers'[t].id > a]_vars

\* Two threads were inside import_model together and the job with the
\* later id entered the job table first.
C15_Witness == Len(installJobs) = 2 /\ installJobs[1] > installJobs[2]

\* C16: a job that is not in a terminal state is never dropped from the job
\* table, also when import_model adds a job while prune_jobs runs.
C16_PruneKeepsUnfinished ==
    [][\A i \in 1..Len(installJobs) :
          ~in_terminal_state(jobs[installJobs[i]])
             => \E k \in 1..Len(installJobs') : installJobs'[k] = installJobs[i]]_vars

\* C17: a job carries an error (error, error_type) only while its status is
\* ERROR.
C17_ErrorOnlyInError ==
    \A j \in JobIds : jobs[j].error # "none" => jobs[j].status = "ERROR"

\* A start() call is made in this step.
StartCalled == boot'.calls # boot.calls
\* What the start-up steps work on: the disk, the configuration in memory,
\* the records store, and the record of the steps run.
StartupState ==
    <<boot.leftover, boot.files, boot.cfg, boot.store, boot.steps, boot.v3passes, boot.pass>>

\* C18: start() on a running service fails with AlreadyStarted and changes
\* nothing: no worker thread is spawned, the scratch-dir scrub, the legacy
\* migration and the scans are not run again; at every instant there is at
\* most one install worker.
C18_StartTwice ==
    /\ [](Workers <= 1)
    /\ [][(StartCalled /\ running)
             => /\ boot'.outcome = "AlreadyStarted"
                /\ boot'.extra = boot.extra
                /\ StartupState' = StartupState
                /\ boot'.sigint = boot.sigint
                /\ core' = core]_vars
C18_Witness ==
    /\ boot.outcome = "AlreadyStarted"
    /\ Workers = 1
    /\ running

\* C19: a start() call on a service that is not running returns normally
\* whatever its start-up steps raise: the scrub, the migration and the
\* missing-model scan are all run and the service is running.
C19_StartupErrorsLogged ==
    [][(StartCalled /\ ~running)
          => /\ boot'.outcome = "returned"
             /\ {"spawn", "scrub", "migrate", "missing"} \subseteq boot'.steps
             /\ running']_vars

InstallOnto(n) ==
    /\ models'.calls # models.calls
    /\ models'.last.op = "install_path"
    /\ models.outside[n] # NoEntry
    /\ models.tree[n] # NoEntry
    /\ models'.last.name = n

\* C21: install_path whose destination already exists fails with Duplicate
\* and leaves what lies at the destination and the records store unchanged,
\* for single-file and directory models alike.
C21_DuplicateDestination ==
    [][\A n \in ModelNames :
          InstallOnto(n) => /\ models'.last.result = "Duplicate"
                            /\ models'.tree = models.tree
                            /\ models'.store = models.store]_vars

\* C23: delete(key) of a model inside the models root leaves neither the
\* record nor the file; delete(key) of a model recorded outside the models
\* root removes the record and leaves the file; unregister(key) removes the
\* record and leaves the file.
C23_DeleteRoundTrip ==
    [][models'.last # models.last /\ models'.last.op \in {"delete", "unregister"}
          => LET key == models'.last.key
                 rec == models.store[key]
             IN  /\ ~models'.store[key].live
                 /\ (models'.last.op = "delete" /\ rec.inside)
                       => /\ models'.tree[rec.path] = NoEntry
                          /\ models'.outside = models.outside
                 /\ (models'.last.op = "delete" /\ ~rec.inside)
                       => /\ models'.tree = models.tree
                          /\ models'.outside = models.outside
                 /\ models'.last.op = "unregister"
                       => /\ models'.tree = models.tree
                          /\ models'.outside = models.outside]_vars
C23_Witness ==
    /\ models.last.op = "delete"
    /\ models.store[models.last.key].inside
    /\ ~models.store[models.last.key].live
    /\ models.tree[models.store[models.last.key].path] = NoEntry
    /\ \E k \in DOMAIN models.store : ~models.store[k].inside /\ ~models.store[k].live

\* C22: _move_model(src, dst) with src # dst never overwrites an existing
\* entry: it moves src to dst when dst is free, otherwise to <stem>_NN<suffix>
\* with NN the smallest zero-padded number from 01 on whose name is free;
\* with src = dst nothing is moved.
C22_CollisionSafeMove ==
    LET m == mover.last
    IN  m.called =>
           IF m.old = m.new
           THEN m.result = m.old /\ mover.dir = m.before
           ELSE /\ m.result \notin m.before
                /\ mover.dir = (m.before \ {m.old}) \cup {m.result}
                /\ m.new \notin m.before => m.result = m.new
                /\ m.new \in m.before =>
                      \E n \in 1..Cardinality(m.before) + 1 :
                         /\ m.result = [m.new EXCEPT !.stem = @ \o <<"_">> \o Format02(n)]
                         /\ \A k \in 1..n - 1 :
                               [m.new EXCEPT !.stem = @ \o <<"_">> \o Format02(k)] \in m.before
C22_Witness ==
    /\ mover.last.called
    /\ mover.last.old = [parent |-> "src", stem |-> <<"x">>, suffix |-> ".safetensors"]
    /\ mover.last.result =
          [parent |-> "dst", stem |-> <<"x", "_", "0", "2">>, suffix |-> ".safetensors"]
    /\ [parent |-> "dst", stem |-> <<"x", "_", "1">>, suffix |-> ".safetensors"] \in mover.dir

\* A thread is inside _put_in_queue and cannot leave it: it waits for
\* self._lock, which is held and never released.
PutInQueueStuck == lock \in {"import", "callback", "cancel_job", "stop"}

\* C24: once the stop event is set, every _put_in_queue call returns to its
\* caller without adding the job to the install queue.
C24_PutAfterStop ==
    /\ [](stopEvent => ~PutInQueueStuck)
    /\ [][stopEvent => \A j \in JobIds : jobs'[j].puts = jobs[j].puts]_vars

\* C25: every URL of the download cache maps to the job that has the active
\* part with that URL, every active part's URL is in the cache under its
\* own job, and the URL of a part whose download has ended is not in the
\* cache under that job.
C25_CacheMatchesParts ==
    /\ \A j \in JobIds : \A p \in DOMAIN jobs[j].parts :
          jobs[j].parts[p] \in PartActive => downloadCache[PartUrl(j, p)] = j
    /\ \A u \in Urls :
          downloadCache[u] # NoJob =>
             \E p \in DOMAIN jobs[downloadCache[u]].parts :
                /\ PartUrl(downloadCache[u], p) = u
                /\ jobs[downloadCache[u]].parts[p] \in PartActive

\* C26: every write to shared state (job table, download cache, next_job_id,
\* running, a job's status, bytes and local_path) is made by a thread that
\* holds self._lock, or by the install worker on the job it has dequeued.
C26_WritesUnderLock ==
    guard.last.field # "none" =>
       \/ guard.last.locked
       \/ guard.last.by = "worker" /\ guard.last.field \in {"status", "bytes", "local_path"}

\* The job has had a part's download fail.
DownloadFailed(j) == \E p \in DOMAIN jobs[j].parts : jobs[j].parts[p] = "error"
\* No other job has a part with a URL of job j.
SoleOwner(j) == \A k \in JobIds \ {j} : jobs[k].source.kind # jobs[j].source.kind

\* C27: a job one of whose parts failed to download is in ERROR, also after
\* the cancelled callbacks of its sibling parts, and the worker emits the
\* install-error event for it and not install-cancelled.
C27_ErrorSticks ==
    \A j \in JobIds :
        (DownloadFailed(j) /\ SoleOwner(j) /\ jobs[j].cancels = 0)
           => /\ jobs[j].status = ERROR
              /\ Count(jobs[j].evts, "cancelled") = 0
              /\ Settled(j) => Count(jobs[j].evts, "error") = 1

\* C28: every job the worker takes from the install queue is WAITING,
\* DOWNLOADS_DONE, CANCELLED or ERROR, and a job whose scratch directory the
\* worker has just removed is in a terminal state.
C28_DequeuedStatus ==
    [][/\ Len(installQueue') < Len(installQueue)
          => jobs[Head(installQueue)].status \in {WAITING, DOWNLOADS_DONE, CANCELLED, ERROR}
       /\ \A j \in JobIds :
             jobs'[j].rmtrees > jobs[j].rmtrees => in_terminal_state(jobs'[j])]_vars

\* C29: the job table never holds two jobs with the same source that are
\* both not in a terminal state, also when import_model is called from
\* several threads at once.
C29_ImportAtomic ==
    \A i, k \in 1..Len(installJobs) :
        (i < k /\ jobs[installJobs[i]].source = jobs[installJobs[k]].source)
           => \/ in_terminal_state(jobs[installJobs[i]])
              \/ in_terminal_state(jobs[installJobs[k]])

\* C30: with fair scheduling and a download queue that ends every part,
\* every job created by import_model eventually is in a terminal state and
\* stays in it, also when cancel_job is called on it.
JobTerminal(j) == j \in JobIds /\ in_terminal_state(jobs[j])
C30_EventuallyTerminal ==
    \A j \in 0..MaxJobs - 1 : (j \in JobIds) ~> []JobTerminal(j)

\* C31: every started, complete or error callback delivered for a part finds
\* an install job in the download cache under the part's URL: the lookup
\* does not fail.
C31_LookupFindsOwner ==
    [][\A j \in JobIds : \A p \in DOMAIN jobs[j].parts :
          (/\ jobs'[j].parts[p] # jobs[j].parts[p]
           /\ jobs'[j].parts[p] \in {"running", "completed", "error"})
             => downloadCache[PartUrl(j, p)] # NoJob]_vars

====
